---- MODULE Spec2Model ----
(***************************************************************************)
(* synSugar (src/synsugar.js): the MicroParser for jade-like element       *)
(* definitions and convertTags, which rewrites the matched elements of a   *)
(* document with the parsed definitions.                                   *)
(*                                                                         *)
(* A JavaScript string is a sequence of one-character strings.  The value  *)
(* null is written null where a string may stand, NUL where a character    *)
(* may stand (the parser's _c and _p) and nullChain where an array of      *)
(* descriptors may stand.  A JavaScript object used as a map is the        *)
(* sequence of its <<key, value>> pairs in insertion order.                *)
(***************************************************************************)
EXTENDS Integers, Sequences, FiniteSets, TLC

VARIABLES
    txt,            \* parse: the definition string given to parse(txt)
    written,        \* parse: the segments txt was written from (<<>> for a raw string)
    parser,         \* MicroParser fields _txt, _pos, _c, _p
    console,        \* the messages given to console.error, in order
    results,        \* parse: the local array results
    ret,            \* parse: the value returned ("running" until it returns)
    conversions,    \* convertTags: the mapping, as a sequence of <<selector, definition>>
    document0,      \* the nodes of the document when convertTags was called
    nodes,          \* every node created so far; node 1 is the document
    o,              \* convertTags: position of the for-in loop over conversions
    elements,       \* convertTags: the parsed chain without its last descriptor
    target,         \* convertTags: the last descriptor of the parsed chain
    matched,        \* convertTags: the NodeList of querySelectorAll(o)
    idx,            \* convertTags: position of forEach in matched
    cb,             \* the locals of the forEach callback: el, root, parent, converted, elAttrs, convertedAttrs
    pc              \* convertTags: where the call stands

vars == <<txt, written, parser, console, results, ret, conversions, document0,
          nodes, o, elements, target, matched, idx, cb, pc>>

parseVars == <<txt, written, parser, console, results, ret>>
domVars == <<conversions, document0, nodes, o, elements, target, matched, idx, cb, pc>>

---------------------------------------------------------------------------
(* Strings and values *)

NUL == "null"
null == <<NUL>>
nullChain == <<[null |-> TRUE]>>

\* The text JavaScript gives a character slot when it is appended to a string.
CharText(c) == IF c = NUL THEN <<"n", "u", "l", "l">> ELSE <<c>>

Letter ==
    {"a","b","c","d","e","f","g","h","i","j","k","l","m","n","o","p","q","r","s","t","u","v","w","x","y","z",
     "A","B","C","D","E","F","G","H","I","J","K","L","M","N","O","P","Q","R","S","T","U","V","W","X","Y","Z"}
Digit == {"0","1","2","3","4","5","6","7","8","9"}

\* /[a-zA-Z]/.test(c): test converts its argument to a string, and "null" holds a letter.
chars(c) == c = NUL \/ c \in Letter
\* /[a-zA-Z0-9_-]/.test(c)
charsEx(c) == c = NUL \/ c \in Letter \cup Digit \cup {"_", "-"}

Blank == {" ", "\t", "\n", "\r"}

RECURSIVE TrimLeft(_)
TrimLeft(s) == IF s # <<>> /\ Head(s) \in Blank THEN TrimLeft(Tail(s)) ELSE s
RECURSIVE TrimRight(_)
TrimRight(s) ==
    IF s # <<>> /\ s[Len(s)] \in Blank THEN TrimRight(SubSeq(s, 1, Len(s) - 1)) ELSE s
\* String.prototype.trim
trim(s) == TrimRight(TrimLeft(s))

---------------------------------------------------------------------------
(* Val and Let bind a name to the value of an expression: LET binds it to the  *)
(* expression, which TLC may evaluate again at every use.                      *)

Val(S) == CHOOSE v \in S : TRUE
Let(e, F(_)) == Val({F(x) : x \in {e}})
Let2(e1, e2, F(_, _)) == Val({F(x, y) : x \in {e1}, y \in {e2}})

---------------------------------------------------------------------------
(* JavaScript objects as ordered maps *)

Keys(obj) == {obj[i][1] : i \in 1..Len(obj)}
HasKey(obj, k) == \E i \in 1..Len(obj) : obj[i][1] = k
Get(obj, k) == obj[CHOOSE i \in 1..Len(obj) : obj[i][1] = k][2]
\* obj[k] = v: an own key keeps its place, a new key goes last
Put(obj, k, v) ==
    IF HasKey(obj, k)
    THEN [i \in 1..Len(obj) |-> IF obj[i][1] = k THEN <<k, v>> ELSE obj[i]]
    ELSE Append(obj, <<k, v>>)

---------------------------------------------------------------------------
(* MicroParser: s holds the fields _txt, _pos, _c and _p *)

_start(t) == [txt |-> t, pos |-> 0, c |-> NUL, p |-> NUL]

\* The value _next returns.
_nextOk(s) == s.pos < Len(s.txt)
_next(s0) ==
    Let(s0, LAMBDA s :
        IF s.pos < Len(s.txt)
        THEN [s EXCEPT !.p = s.c, !.c = s.txt[s.pos + 1], !.pos = s.pos + 1]
        ELSE [s EXCEPT !.c = NUL])

RECURSIVE _eatblanks(_)
_eatblanks(s0) ==
    Let(s0, LAMBDA s : IF s.c \in Blank THEN _eatblanks(_next(s)) ELSE s)

\* The loop of _getAttr: while (this._next() && charsEx.test(this._c)) attr += this._c
RECURSIVE _getAttrLoop(_, _)
_getAttrLoop(s, attr) ==
    Let(_next(s), LAMBDA n :
        IF _nextOk(s) /\ charsEx(n.c)
        THEN _getAttrLoop(n, attr \o <<n.c>>)
        ELSE [s |-> n, v |-> attr])

_getAttr(s0) ==
    Let(_eatblanks(s0), LAMBDA s :
        IF ~chars(s.c) THEN [s |-> s, v |-> null]
        ELSE IF s.c = NUL
             \* attr = this._c is null, _next() is false at the end of input
             THEN [s |-> _eatblanks(_next(s)), v |-> null]
             ELSE Let(_getAttrLoop(s, <<s.c>>), LAMBDA r :
                      [s |-> _eatblanks(r.s), v |-> r.v]))

\* console.error(`syntax error near ${this._pos} (${this._c}): ${x}`)
_syntaxError(s, log, x) == Append(log, [pos |-> s.pos, c |-> s.c, msg |-> x])

\* The loop of _getString.
RECURSIVE _getStringLoop(_, _, _)
_getStringLoop(s, dchar, str) ==
    Let(_next(s), LAMBDA n :
        IF ~_nextOk(s) THEN [s |-> n, v |-> str]
        ELSE IF n.c = dchar /\ n.p # "\\" THEN [s |-> n, v |-> str]
        ELSE _getStringLoop(n, dchar, str \o <<n.c>>))

_getString(s, log) ==
    Let(_getStringLoop(s, s.c, <<>>), LAMBDA r :
        [s |-> _next(r.s), v |-> r.v,
         log |-> IF r.s.c = NUL THEN _syntaxError(r.s, log, "unclosed quote") ELSE log])

\* The default branch of _getValue; early is the return inside the loop.
RECURSIVE _getValueLoop(_, _)
_getValueLoop(s, value) ==
    IF s.c \in {",", ")", " ", "\t"} THEN [s |-> s, v |-> value, early |-> FALSE]
    ELSE IF ~_nextOk(s) THEN [s |-> _next(s), v |-> value \o CharText(s.c), early |-> TRUE]
    ELSE Let(_next(s), LAMBDA n : _getValueLoop(n, value \o CharText(s.c)))

\* _getValueBare without the special value: the text null stays a string.
_getValueBareKeepsText(r) == IF r.early THEN r.v ELSE trim(r.v)

\* The value of the default branch: trimmed, the text null is the special value.
_getValueBare(r) ==
    IF r.early THEN r.v
    ELSE IF trim(r.v) = <<"n", "u", "l", "l">> THEN null ELSE trim(r.v)

_getValue(s0, log) ==
    Let(_eatblanks(s0), LAMBDA s :
        IF s.c \in {"\"", "'"}
        THEN Let(_getString(s, log), LAMBDA r :
                 [s |-> _eatblanks(r.s), v |-> r.v, log |-> r.log])
        ELSE Let(_getValueLoop(s, <<>>), LAMBDA r :
                 [s |-> IF r.early THEN r.s ELSE _eatblanks(r.s),
                  v |-> _getValueBare(r), log |-> log]))

---------------------------------------------------------------------------
(* MicroParser.parse *)

div == <<"d", "i", "v">>

\* The loop reading the classes: st is "ok" or "error".
RECURSIVE _getClasses(_, _, _)
_getClasses(s, log, classes) ==
    IF s.c # "." THEN [s |-> s, log |-> log, classes |-> classes, st |-> "ok"]
    ELSE Let(_getAttr(_next(s)), LAMBDA g :
             IF g.v = null
             THEN [s |-> g.s, log |-> _syntaxError(g.s, log, "unexpected class"),
                   classes |-> classes, st |-> "error"]
             ELSE _getClasses(g.s, log, Append(classes, g.v)))

\* One attribute of the list, from its name to its value: the attributes with
\* it set, or st "error" when no name stands there.
_getAttrsOne(s, log, attrs) ==
    Let(_getAttr(s), LAMBDA g :
        IF g.v = null
        THEN [s |-> g.s, log |-> _syntaxError(g.s, log, "unexpected attribute"),
              attrs |-> attrs, st |-> "error"]
        ELSE Let(_eatblanks(g.s), LAMBDA b :
             Let(IF b.c = "="
                 THEN _getValue(_eatblanks(_next(b)), log)
                 ELSE [s |-> b, v |-> null, log |-> log], LAMBDA r :
                 [s |-> r.s, log |-> r.log, attrs |-> Put(attrs, g.v, r.v), st |-> "ok"])))

\* The loop reading the attributes, entered after the "(" was skipped.
RECURSIVE _getAttrs(_, _, _)
_getAttrs(s, log, attrs) ==
    Let(_getAttrsOne(s, log, attrs), LAMBDA a :
        IF a.st = "error" \/ a.s.c = ")" THEN a
        ELSE IF a.s.c # ","
             THEN [a EXCEPT !.log = _syntaxError(a.s, a.log, "unexpected character"),
                            !.st = "error"]
             ELSE Let(_next(a.s), LAMBDA n : _getAttrs(n, a.log, a.attrs)))

\* The end of one pass of the loop of parse, after the attributes: st is "more"
\* (a ">" follows), "eof" (the loop breaks) or "error".
_segmentEnd(s0, log, tag, id, classes, attrs) ==
    Let(_eatblanks(s0), LAMBDA s :
        IF s.c = NUL
        THEN [s |-> s, log |-> log, st |-> "eof",
              el |-> <<[tag |-> tag, id |-> id, classes |-> classes, attrs |-> attrs]>>]
        ELSE IF s.c # ">"
             THEN [s |-> s, log |-> _syntaxError(s, log, "expected > or EOF"), st |-> "error",
                   el |-> <<[tag |-> tag, id |-> id, classes |-> classes, attrs |-> attrs]>>]
             ELSE [s |-> s, log |-> log, st |-> "more",
                   el |-> <<[tag |-> tag, id |-> id, classes |-> classes, attrs |-> attrs]>>])

_segmentAttrs(s, log, tag, id, classes) ==
    IF s.c # "(" THEN _segmentEnd(s, log, tag, id, classes, <<>>)
    ELSE Let(_getAttrs(_next(s), log, <<>>), LAMBDA a :
             IF a.st = "error" THEN [s |-> a.s, log |-> a.log, el |-> <<>>, st |-> "error"]
             ELSE IF a.s.c # ")"
                  THEN [s |-> a.s, log |-> _syntaxError(a.s, a.log, "expected )"),
                        el |-> <<>>, st |-> "error"]
                  ELSE _segmentEnd(_next(a.s), a.log, tag, id, classes, a.attrs))

_segmentClasses(s, log, tag, id) ==
    Let(_getClasses(s, log, <<>>), LAMBDA k :
        IF k.st = "error" THEN [s |-> k.s, log |-> k.log, el |-> <<>>, st |-> "error"]
        ELSE _segmentAttrs(k.s, k.log, tag, id, k.classes))

\* _segment without the default tag.
_segmentNoDefaultTag(s0, log) ==
    Let(_getAttr(_next(s0)), LAMBDA t :
        IF t.s.c # "#" THEN _segmentClasses(t.s, log, t.v, null)
        ELSE Let(_getAttr(_next(t.s)), LAMBDA i :
                 IF i.v = null
                 THEN [s |-> i.s, log |-> _syntaxError(i.s, log, "invalid ID"),
                       el |-> <<>>, st |-> "error"]
                 ELSE _segmentClasses(i.s, log, t.v, i.v)))

\* One pass of the while (true) loop of parse.
_segment(s0, log) ==
    Let(_getAttr(_next(s0)), LAMBDA t :
        IF t.s.c # "#"
        THEN _segmentClasses(t.s, log, IF t.v = null THEN div ELSE t.v, null)
        ELSE Let(_getAttr(_next(t.s)), LAMBDA i :
                 IF i.v = null
                 THEN [s |-> i.s, log |-> _syntaxError(i.s, log, "invalid ID"),
                       el |-> <<>>, st |-> "error"]
                 ELSE _segmentClasses(i.s, log, IF t.v = null THEN div ELSE t.v, i.v)))

RECURSIVE _parseLoop(_, _, _)
_parseLoop(s, log, res) ==
    Let(_segment(s, log), LAMBDA g :
        IF g.st = "error" THEN [s |-> g.s, log |-> g.log, ret |-> nullChain]
        ELSE IF g.st = "eof" THEN [s |-> g.s, log |-> g.log, ret |-> res \o g.el]
        ELSE Let(res \o g.el, LAMBDA res1 : _parseLoop(g.s, g.log, res1)))

\* parse(txt): the value returned, the parser's fields and the console afterwards.
parse(t, log) == _parseLoop(_start(t), log, <<>>)

---------------------------------------------------------------------------
(* The definition strings parse is given *)

MaxRawLen == 4
MaxSegs == 3
MaxAttrs == 2

RawAlphabet == {"a", "#", ".", "(", ")", "=", ",", ">", "'", " "}

RECURSIVE StringsUpTo(_, _)
StringsUpTo(A, n) ==
    IF n = 0 THEN {<<>>}
    ELSE LET S == StringsUpTo(A, n - 1) IN S \cup {Append(s, c) : s \in S, c \in A}

RECURSIVE SeqsUpTo(_, _)
SeqsUpTo(S, n) ==
    IF n = 0 THEN {<<>>}
    ELSE LET R == SeqsUpTo(S, n - 1) IN R \cup {Append(r, x) : r \in R, x \in S}

\* How an attribute is written: its name and the form of its value.
AttrForms == {"noeq", "empty", "barenull", "barenl", "bare", "quotednull", "quoted"}
WrittenAttrs == [name : {<<"x">>, <<"y">>}, form : AttrForms]

FormText(form) ==
    CASE form = "noeq" -> <<>>
      [] form = "empty" -> <<>>
      [] form = "barenull" -> <<"n", "u", "l", "l">>
      [] form = "barenl" -> <<"n", "u", "l", "l", "\n">>
      [] form = "bare" -> <<"a", "-", "1">>
      [] form = "quotednull" -> <<"'", "n", "u", "l", "l", "'">>
      [] form = "quoted" -> <<"\"", ">", "\\", "\"", ")", "\"">>

\* A segment as written: tag and id are null when left out.
WrittenChainSegs == [tag : {null, <<"a">>, <<"d", "-", "2">>}, id : {null, <<"e">>},
                     classes : {<<>>, <<<<"f", "o", "o">>, <<"c">>>>},
                     attrs : {<<>>}]
WrittenAttrSegs == [tag : {<<"a">>}, id : {null}, classes : {<<>>},
                    attrs : SeqsUpTo(WrittenAttrs, MaxAttrs) \ {<<>>}]

RECURSIVE Join(_, _)
Join(ss0, sep) ==
    Let(ss0, LAMBDA ss :
        IF ss = <<>> THEN <<>>
        ELSE IF Len(ss) = 1 THEN ss[1]
        ELSE ss[1] \o sep \o Join(Tail(ss), sep))

RenderAttr(a, sp) ==
    a.name \o (IF a.form = "noeq" THEN <<>> ELSE sp \o <<"=">> \o sp \o FormText(a.form))
           \o sp

RenderSegment(w, sp) ==
    (IF w.tag = null THEN <<>> ELSE w.tag)
    \o (IF w.id = null THEN <<>> ELSE <<"#">> \o w.id)
    \o Join([i \in 1..Len(w.classes) |-> <<".">> \o w.classes[i]], <<>>)
    \o (IF w.attrs = <<>> THEN <<>>
        ELSE <<"(">> \o sp
             \o Join([i \in 1..Len(w.attrs) |-> RenderAttr(w.attrs[i], sp)], <<",">> \o sp)
             \o <<")">>)

\* The text of a chain of segments, tight (sp empty) or with blanks between the tokens.
Render(ws, sp) ==
    Join([i \in 1..Len(ws) |-> RenderSegment(ws[i], sp)], sp \o <<">">> \o sp) \o sp

WrittenInputs ==
    (SeqsUpTo(WrittenChainSegs, MaxSegs) \ {<<>>})
    \cup {<<w>> : w \in WrittenAttrSegs}
    \cup {<<v, w>> : v \in {[tag |-> null, id |-> null, classes |-> <<>>, attrs |-> <<>>]},
                     w \in {x \in WrittenAttrSegs : Len(x.attrs) = 1}}

---------------------------------------------------------------------------
(* parse as the steps of one call *)

ParseIdle ==
    /\ parser = [txt |-> <<>>, pos |-> 0, c |-> NUL, p |-> NUL]
    /\ console = <<>>
    /\ results = <<>>
    /\ ret = [st |-> "idle"]

DomIdle ==
    /\ conversions = <<>>
    /\ document0 = <<>>
    /\ nodes = <<>>
    /\ o = 0
    /\ elements = <<>>
    /\ target = <<>>
    /\ matched = <<>>
    /\ idx = 0
    /\ cb = <<>>
    /\ pc = "idle"

ParseInit ==
    /\ \/ /\ txt \in StringsUpTo(RawAlphabet, MaxRawLen)
          /\ written = <<>>
       \/ \E ws \in WrittenInputs, sp \in {<<>>, <<" ">>} :
             /\ txt = Render(ws, sp)
             /\ written = ws
    /\ ParseIdle
    /\ DomIdle

\* parse, to the start of its loop
parseStart ==
    /\ pc = "idle"
    /\ ret.st = "idle"
    /\ parser' = _start(txt)
    /\ results' = <<>>
    /\ ret' = [st |-> "running"]
    /\ UNCHANGED <<txt, written, console>>
    /\ UNCHANGED domVars

\* one pass of the loop of parse
parseSegment ==
    /\ ret.st = "running"
    /\ LET g == _segment(parser, console) IN
          /\ parser' = g.s
          /\ console' = g.log
          /\ results' = IF g.st = "error" THEN results ELSE results \o g.el
          /\ ret' = IF g.st = "more" THEN ret
                    ELSE [st |-> "returned",
                          v |-> IF g.st = "error" THEN nullChain ELSE results \o g.el]
    /\ UNCHANGED <<txt, written>>
    /\ UNCHANGED domVars

ParseNext == parseStart \/ parseSegment

SpecParse == ParseInit /\ [][ParseNext]_vars

---------------------------------------------------------------------------
(* Claims about parse, under SpecParse *)

Returned == ret.st = "returned"
Parsed == Returned /\ ret.v # nullChain

\* C2: when parse reports an error it stops there: the call has returned null,
\* the error is the only one reported, and no character was read after it.
C2_AbortsAtFirstError ==
    console # <<>> =>
        /\ Returned
        /\ ret.v = nullChain
        /\ Len(console) = 1
        /\ parser.pos = console[1].pos

\* The text of s cut at each ">".
RECURSIVE SplitGt(_, _)
SplitGt(s, cur) ==
    IF s = <<>> THEN <<cur>>
    ELSE IF Head(s) = ">" THEN <<cur>> \o SplitGt(Tail(s), <<>>)
    ELSE SplitGt(Tail(s), Append(cur, Head(s)))

RECURSIVE IdentPrefix(_)
IdentPrefix(s) ==
    IF s # <<>> /\ Head(s) \in Letter \cup Digit \cup {"_", "-"}
    THEN <<Head(s)>> \o IdentPrefix(Tail(s))
    ELSE <<>>

\* The tag a segment's text names: its leading identifier, div when it has none.
WrittenTag(seg) ==
    LET s == TrimLeft(seg) IN
    IF s # <<>> /\ Head(s) \in Letter THEN IdentPrefix(s) ELSE div

HasChar(s, c) == \E i \in 1..Len(s) : s[i] = c

\* C7: a chain parse returns has at least one descriptor, one descriptor per
\* segment in the order written, and the tag div where a segment names no tag.
C7_ChainAsWritten ==
    Parsed =>
        /\ Len(ret.v) >= 1
        /\ written # <<>> =>
              /\ Len(ret.v) = Len(written)
              /\ \A i \in 1..Len(written) :
                    /\ ret.v[i].tag = (IF written[i].tag = null THEN div ELSE written[i].tag)
                    /\ ret.v[i].id = written[i].id
                    /\ ret.v[i].classes = written[i].classes
        /\ (written = <<>> /\ ~HasChar(txt, "(")) =>
              LET segs == SplitGt(txt, <<>>) IN
              /\ Len(ret.v) = Len(segs)
              /\ \A i \in 1..Len(segs) : ret.v[i].tag = WrittenTag(segs[i])

\* C7 happens: three segments parsed, the first with its tag, the last without one.
C7_Witness ==
    /\ Parsed
    /\ Len(written) = 3
    /\ Len(ret.v) = 3
    /\ ret.v[1].tag = <<"a">>
    /\ ret.v[2].classes = <<<<"f", "o", "o">>, <<"c">>>>
    /\ ret.v[3].tag = div
    /\ ret.v[3].id = <<"e">>

\* The form in which the attribute name is written last in the list as.
LastForm(as, name) ==
    as[CHOOSE j \in 1..Len(as) :
          /\ as[j].name = name
          /\ \A k \in (j + 1)..Len(as) : as[k].name # name].form

\* C8: a parsed attribute is null exactly when it is written without "=" or with
\* the unquoted text null; a quoted value is the string between the quotes, and
\* "=" with no value gives the empty string.
C8_NullSentinel ==
    (Parsed /\ written # <<>>) =>
        \A i \in 1..Len(written) :
            /\ Keys(ret.v[i].attrs) = {written[i].attrs[j].name : j \in 1..Len(written[i].attrs)}
            /\ \A name \in Keys(ret.v[i].attrs) :
                  LET form == LastForm(written[i].attrs, name)
                      v == Get(ret.v[i].attrs, name)
                  IN  /\ (v = null) <=> (form \in {"noeq", "barenull", "barenl"})
                      /\ form = "quotednull" => v = <<"n", "u", "l", "l">>
                      /\ form = "quoted" => v = <<">", "\\", "\"", ")">>
                      /\ form = "empty" => v = <<>>
                      /\ form = "bare" => v = <<"a", "-", "1">>

\* C8 happens: one list holds the unquoted null, the quoted 'null' or an empty value.
C8_Witness ==
    /\ Parsed
    /\ Len(written) = 1
    /\ Len(written[1].attrs) = 2
    /\ written[1].attrs[1] = [name |-> <<"x">>, form |-> "barenull"]
    /\ written[1].attrs[2] = [name |-> <<"y">>, form |-> "quotednull"]
    /\ ret.v[1].attrs = <<<< <<"x">>, null >>, << <<"y">>, <<"n", "u", "l", "l">> >>>>

\* Every text written from segments parses.
WrittenParses == (Returned /\ written # <<>>) => ret.v # nullChain

---------------------------------------------------------------------------
(* The document: nodes[n] is node n, with its tag, its attributes in order,   *)
(* its child nodes in order and its parent (0 when it has none).  Node 1 is   *)
(* the document; a text node has the tag TextTag.                             *)

DocumentTag == <<"#document">>
TextTag == <<"#text">>
ID == <<"i", "d">>
CLASS == <<"c", "l", "a", "s", "s">>

NewNode(tag) == [tag |-> tag, attrs |-> <<>>, children |-> <<>>, parent |-> 0]

Remove(obj, k) == SelectSeq(obj, LAMBDA kv : kv[1] # k)

\* el.setAttribute(k, v), el.removeAttribute(k)
setAttribute(n, k, v) == [n EXCEPT !.attrs = Put(@, k, v)]
removeAttribute(n, k) == [n EXCEPT !.attrs = Remove(@, k)]

\* The names Object.prototype gives every plain object.
ObjectPrototype ==
    {<<"c", "o", "n", "s", "t", "r", "u", "c", "t", "o", "r">>,
     <<"t", "o", "S", "t", "r", "i", "n", "g">>,
     <<"t", "o", "L", "o", "c", "a", "l", "e", "S", "t", "r", "i", "n", "g">>,
     <<"v", "a", "l", "u", "e", "O", "f">>,
     <<"h", "a", "s", "O", "w", "n", "P", "r", "o", "p", "e", "r", "t", "y">>,
     <<"i", "s", "P", "r", "o", "t", "o", "t", "y", "p", "e", "O", "f">>,
     <<"p", "r", "o", "p", "e", "r", "t", "y", "I", "s", "E", "n", "u", "m", "e", "r", "a", "b", "l", "e">>,
     <<"_", "_", "p", "r", "o", "t", "o", "_", "_">>,
     <<"_", "_", "d", "e", "f", "i", "n", "e", "G", "e", "t", "t", "e", "r", "_", "_">>,
     <<"_", "_", "d", "e", "f", "i", "n", "e", "S", "e", "t", "t", "e", "r", "_", "_">>,
     <<"_", "_", "l", "o", "o", "k", "u", "p", "G", "e", "t", "t", "e", "r", "_", "_">>,
     <<"_", "_", "l", "o", "o", "k", "u", "p", "S", "e", "t", "t", "e", "r", "_", "_">>}

\* obj[k] === undefined, for a plain object obj: an inherited name is not undefined.
IsUndefined(obj, k) == ~HasKey(obj, k) /\ k \notin ObjectPrototype

\* Function to remove duplicate items from an array
arrayUnique(ar0) ==
    Let(ar0, LAMBDA ar :
    Let(SelectSeq([i \in 1..Len(ar) |-> <<i, ar[i]>>],
                  LAMBDA p : \A j \in 1..(p[1] - 1) : ar[j] # p[2]), LAMBDA kept :
        [i \in 1..Len(kept) |-> kept[i][2]]))

\* The tokens of a class attribute: its text cut at the blanks.
RECURSIVE SplitBlank(_, _)
SplitBlank(s0, cur0) ==
    Let2(s0, cur0, LAMBDA s, cur :
        IF s = <<>> THEN (IF cur = <<>> THEN <<>> ELSE <<cur>>)
        ELSE IF Head(s) \in Blank
             THEN (IF cur = <<>> THEN <<>> ELSE <<cur>>) \o SplitBlank(Tail(s), <<>>)
             ELSE SplitBlank(Tail(s), Append(cur, Head(s))))

ClassTokens(n) == IF HasKey(n.attrs, CLASS) THEN SplitBlank(Get(n.attrs, CLASS), <<>>) ELSE <<>>
\* el.classList: the tokens of the class attribute as an ordered set
classList(n) == arrayUnique(ClassTokens(n))
\* el.classList.add(c): the class attribute becomes the token set with c in it
classListAdd(n, c) ==
    setAttribute(n, CLASS, Join(arrayUnique(Append(classList(n), c)), <<" ">>))

RECURSIVE addClasses(_, _)
addClasses(n0, classes0) ==
    Let2(n0, classes0, LAMBDA n, classes :
        IF classes = <<>> THEN n
        ELSE addClasses(classListAdd(n, Head(classes)), Tail(classes)))

\* The last loop of createElement: a null attribute is removed, any other set.
RECURSIVE setAttrs(_, _)
setAttrs(n0, attrs0) ==
    Let2(n0, attrs0, LAMBDA n, attrs :
        IF attrs = <<>> THEN n
        ELSE setAttrs(IF Head(attrs)[2] = null
                      THEN removeAttribute(n, Head(attrs)[1])
                      ELSE setAttribute(n, Head(attrs)[1], Head(attrs)[2]),
                      Tail(attrs)))

\* createElement(def): the new element, not yet in any tree.
createElement(def) ==
    setAttrs(addClasses(IF def.id # null
                        THEN setAttribute(NewNode(def.tag), ID, def.id)
                        ELSE NewNode(def.tag),
                        def.classes),
             def.attrs)

\* getAttrs(el): the dictionary of the attributes of el
getAttrs(n) == n.attrs

\* The first loop of convert: the attributes of el that def does not name are
\* copied into def.attrs.
RECURSIVE convertAttrs(_, _)
convertAttrs(defAttrs0, elAttrs0) ==
    Let2(defAttrs0, elAttrs0, LAMBDA defAttrs, elAttrs :
        IF elAttrs = <<>> THEN defAttrs
        ELSE convertAttrs(IF Head(elAttrs)[1] # CLASS /\ IsUndefined(defAttrs, Head(elAttrs)[1])
                          THEN Put(defAttrs, Head(elAttrs)[1], Head(elAttrs)[2])
                          ELSE defAttrs,
                          Tail(elAttrs)))

\* convertClasses without the classes of el.
convertClassesOfDefOnly(defClasses, el) == arrayUnique(defClasses)

\* The second loop of convert: the classes of el join those of def.
convertClasses(defClasses, el) == arrayUnique(defClasses \o classList(el))

\* JSON.parse(JSON.stringify(def)): a new descriptor with new arrays and a new
\* attribute object holding what def holds; null, the strings and the order of
\* the keys are kept.
deepCopy(def) ==
    [tag |-> def.tag, id |-> def.id,
     classes |-> [i \in 1..Len(def.classes) |-> def.classes[i]],
     attrs |-> [i \in 1..Len(def.attrs) |-> <<def.attrs[i][1], def.attrs[i][2]>>]]

\* The two loops of convert, on the descriptor they write to.
convertDef(el, def) ==
    [def EXCEPT !.attrs = convertAttrs(def.attrs, el.attrs),
                !.classes = convertClasses(def.classes, el)]

\* convertAfter with the loops writing to the descriptor of the caller.
convertAfterInPlace(def, local) == local

\* The descriptor the caller gave to convert, after the call: def names a copy
\* from the first line on, so the loops leave the caller's as it was.
convertAfter(def, local) == def

\* convert(el, def) up to createElement: the element built from def and el.
convertElement(el, def) == createElement(convertDef(el, deepCopy(def)))

\* parent.appendChild(child), for a child that is in no tree
appendChild(ns0, par, child) ==
    Let(ns0, LAMBDA ns :
        [ns EXCEPT ![par].children = Append(@, child), ![child].parent = par])

\* converted.append(...el.childNodes): the children of el move to converted
appendChildNodes(ns0, converted, el) ==
    Let(ns0, LAMBDA ns :
        [n \in 1..Len(ns) |->
            IF n = converted THEN [ns[n] EXCEPT !.children = @ \o ns[el].children]
            ELSE IF n = el THEN [ns[n] EXCEPT !.children = <<>>]
            ELSE IF ns[n].parent = el THEN [ns[n] EXCEPT !.parent = converted]
            ELSE ns[n]])

\* convert(el, def): the nodes with the converted element added, the children
\* of el moved into it.
convert(ns, el, def) ==
    appendChildNodes(Append(ns, convertElement(ns[el], def)), Len(ns) + 1, el)

\* parent.replaceChild(new, old), for a new node that is in no tree
replaceChild(ns0, new, old) ==
    Let(ns0, LAMBDA ns :
        [n \in 1..Len(ns) |->
            IF n = ns[old].parent
            THEN [ns[n] EXCEPT
                    !.children = [i \in 1..Len(@) |-> IF @[i] = old THEN new ELSE @[i]]]
            ELSE IF n = new THEN [ns[n] EXCEPT !.parent = ns[old].parent]
            ELSE IF n = old THEN [ns[n] EXCEPT !.parent = 0]
            ELSE ns[n]])

\* The nodes under n, n first, in document order.
RECURSIVE Preorder(_, _)
Preorder(ns, n) ==
    LET RECURSIVE Each(_)
        Each(kids0) ==
            Let(kids0, LAMBDA kids :
                IF kids = <<>> THEN <<>> ELSE Preorder(ns, Head(kids)) \o Each(Tail(kids)))
    IN  <<n>> \o Each(ns[n].children)

\* document.querySelectorAll(o), for a selector that names a tag: the elements of
\* the document with that tag, in document order.
querySelectorAll(ns, sel) == SelectSeq(Tail(Preorder(ns, 1)), LAMBDA n : ns[n].tag = sel)

---------------------------------------------------------------------------
(* The placeholders: String.prototype.replace with a string pattern *)

IsAt(s, pat, i) == i + Len(pat) - 1 <= Len(s) /\ SubSeq(s, i, i + Len(pat) - 1) = pat
Contains(s, pat) == \E i \in 1..Len(s) : IsAt(s, pat, i)
\* The place of the first occurrence of pat in s, 0 when it has none.
IndexOf(s, pat) ==
    IF Contains(s, pat)
    THEN CHOOSE i \in 1..Len(s) : IsAt(s, pat, i) /\ \A j \in 1..(i - 1) : ~IsAt(s, pat, j)
    ELSE 0

\* The text a replacement string stands for: $$ is a dollar, $& the matched
\* text, $` the text before the match and $' the text after it.
RECURSIVE Expand(_, _, _, _)
Expand(rep0, m, before, after) ==
    Let(rep0, LAMBDA rep :
        IF rep = <<>> THEN <<>>
        ELSE IF Head(rep) = "$" /\ Len(rep) >= 2 /\ rep[2] \in {"$", "&", "`", "'"}
             THEN (CASE rep[2] = "$" -> <<"$">>
                     [] rep[2] = "&" -> m
                     [] rep[2] = "`" -> before
                     [] rep[2] = "'" -> after)
                  \o Expand(Tail(Tail(rep)), m, before, after)
             ELSE <<Head(rep)>> \o Expand(Tail(rep), m, before, after))

\* s.replace(pat, rep), pat a string: the first occurrence only.
replaceFirst(s0, pat, rep) ==
    Let2(s0, IndexOf(s0, pat), LAMBDA s, i :
        IF i = 0 THEN s
        ELSE SubSeq(s, 1, i - 1)
             \o Expand(rep, pat, SubSeq(s, 1, i - 1), SubSeq(s, i + Len(pat), Len(s)))
             \o SubSeq(s, i + Len(pat), Len(s)))

\* `\$\{${attr}\}`
Token(attr) == <<"$", "{">> \o attr \o <<"}">>

\* The inner loop of the substitution, over the attributes of el in order.
RECURSIVE substituteValue(_, _)
substituteValue(value0, elAttrs0) ==
    Let2(value0, elAttrs0, LAMBDA value, elAttrs :
        IF elAttrs = <<>> THEN value
        ELSE substituteValue(replaceFirst(value, Token(Head(elAttrs)[1]), Head(elAttrs)[2]),
                             Tail(elAttrs)))

---------------------------------------------------------------------------
(* convertTags: the callback of forEach, in its three parts *)

\* The loop over the intermediate elements: each is created and appended to
\* the one before it.  root and parent are 0 for null.
RECURSIVE createAncestors(_, _, _, _)
createAncestors(ns0, els0, root, parent) ==
    Let2(ns0, els0, LAMBDA ns, els :
        IF els = <<>> THEN [nodes |-> ns, root |-> root, parent |-> parent]
        ELSE createAncestors(IF parent # 0
                             THEN appendChild(Append(ns, createElement(Head(els))),
                                              parent, Len(ns) + 1)
                             ELSE Append(ns, createElement(Head(els))),
                             Tail(els),
                             IF root = 0 THEN Len(ns) + 1 ELSE root,
                             Len(ns) + 1))

\* The callback up to convertedAttrs = getAttrs(converted).
callbackBuild(ns, el, els, tgt) ==
    Let(createAncestors(ns, els, 0, 0), LAMBDA a :
    Let(convert(a.nodes, el, tgt), LAMBDA ns1 :
        [nodes |-> ns1,
         target |-> convertAfter(tgt, convertDef(ns[el], deepCopy(tgt))),
         cb |-> [el |-> el, root |-> a.root, parent |-> a.parent,
                 converted |-> Len(a.nodes) + 1,
                 elAttrs |-> getAttrs(ns[el]),
                 convertedAttrs |-> getAttrs(ns1[Len(a.nodes) + 1])]]))

\* The two loops that replace the placeholders in convertedAttrs.
callbackSubstitute(c) ==
    [c EXCEPT !.convertedAttrs =
        [i \in 1..Len(@) |-> <<@[i][1], substituteValue(@[i][2], c.elAttrs)>>]]

RECURSIVE setAttributes(_, _)
setAttributes(n0, attrs0) ==
    Let2(n0, attrs0, LAMBDA n, attrs :
        IF attrs = <<>> THEN n
        ELSE setAttributes(setAttribute(n, Head(attrs)[1], Head(attrs)[2]), Tail(attrs)))

\* callbackInsert with the converted element appended to root, not to parent.
callbackInsertUnderRoot(ns, c) ==
    IF c.root = 0 THEN replaceChild(ns, c.converted, c.el)
    ELSE appendChild(replaceChild(ns, c.root, c.el), c.root, c.converted)

\* The end of the callback: el is replaced in its parent.
callbackInsert(ns, c) ==
    IF c.root = 0 THEN replaceChild(ns, c.converted, c.el)
    ELSE appendChild(replaceChild(ns, c.root, c.el), c.parent, c.converted)

\* The callback from "Now set the replaced attributes" on.
callbackReplace(ns, c) ==
    callbackInsert([ns EXCEPT ![c.converted] = setAttributes(@, c.convertedAttrs)], c)

\* The whole callback for one element: the nodes and the target descriptor
\* after it.
callback(ns, el, els, tgt) ==
    Let(callbackBuild(ns, el, els, tgt), LAMBDA b :
        [nodes |-> callbackReplace(b.nodes, callbackSubstitute(b.cb)),
         target |-> b.target])

RECURSIVE forEach(_, _, _, _)
forEach(ns0, list0, els, tgt) ==
    Let2(ns0, list0, LAMBDA ns, list :
        IF list = <<>> THEN ns
        ELSE Let(callback(ns, Head(list), els, tgt), LAMBDA r :
                 forEach(r.nodes, Tail(list), els, r.target)))

Front(s) == SubSeq(s, 1, Len(s) - 1)
Last(s) == s[Len(s)]

\* convertTags(conversions) as a whole: the nodes when the call ends, by
\* returning or by the TypeError of elements.pop() on null.
RECURSIVE convertTagsRun(_, _)
convertTagsRun(ns0, convs0) ==
    Let2(ns0, convs0, LAMBDA ns, convs :
        IF convs = <<>> THEN ns
        ELSE Let(parse(Head(convs)[2], <<>>).ret, LAMBDA chain :
                 IF chain = nullChain THEN ns
                 ELSE convertTagsRun(forEach(ns, querySelectorAll(ns, Head(convs)[1]),
                                             Front(chain), Last(chain)),
                                     Tail(convs))))

---------------------------------------------------------------------------
(* The mappings and documents convertTags is called with *)

MaxRules == 2
MaxEls == 2
\* The nodes a call may create in all, the nodes of the document included.
MaxNodes == 60

\* The definition strings of the rules.
Definitions ==
    {<<"b">>,
     <<"b", "#", "x", ".", "c", ".", "c">>,
     <<".", "k", "(", "h", "=", "n", "u", "l", "l", ",", "t", "=", "'", "$", "{", "h", "}", "'", ")">>,
     <<"b", "(", "t", "=", "'", "$", "{", "h", "}", "-", "$", "{", "h", "}", "'", ")">>,
     <<"b", "(", "t", "=", "'", "$", "{", "a", "}", "'", ")">>,
     <<"l", ".", "g", ">", "a", ".", "c", "(", "v", "=", "n", "u", "l", "l", ")">>,
     <<"u", ">", "l", "#", "y", ">", "b", "(", "c", "l", "a", "s", "s", "=", "n", "u", "l", "l", ")">>,
     <<"b", ".", "c", "(", "c", "l", "a", "s", "s", "=", "'", "z", "'", ",", "i", "d", "=", "'", "w", "'", ")">>,
     <<"b", "(">>,
     <<"b", "(", "t", "=", "'">>}

Selectors == {<<"a">>, <<"l">>}

RuleLists ==
    {cs \in SeqsUpTo(Selectors \X Definitions, MaxRules) \ {<<>>} :
        \A i, j \in 1..Len(cs) : i # j => cs[i][1] # cs[j][1]}

\* The attributes the elements of the documents carry.
ElAttrs ==
    {<<>>,
     <<<<<<"h">>, <<"v">>>>>>,
     <<<<<<"i", "d">>, <<"i">>>>, <<<<"c", "l", "a", "s", "s">>, <<"c", " ", "k">>>>, <<<<"h">>, <<"v">>>>>>,
     <<<<<<"h">>, <<>>>>, <<<<"c", "l", "a", "s", "s">>, <<"c", " ", " ", "c">>>>>>,
     <<<<<<"a">>, <<"$", "{", "b", "}">>>>, <<<<"b">>, <<"X">>>>>>,
     <<<<<<"b">>, <<"X">>>>, <<<<"a">>, <<"$", "{", "b", "}">>>>>>,
     <<<<<<"c", "o", "n", "s", "t", "r", "u", "c", "t", "o", "r">>, <<"v">>>>>>,
     <<<<<<"h">>, <<"$", "&">>>>>>}

\* An element of a document: its tag, its attributes, and whether it holds,
\* after its text, an element <a h="n"> with a text of its own.
ElShapes ==
    [tag : {<<"a">>}, attrs : ElAttrs, nested : {FALSE}]
    \cup {[tag |-> <<"a">>, attrs |-> <<<< <<"h">>, <<"v">> >>>>, nested |-> TRUE],
          [tag |-> <<"l">>, attrs |-> <<<< <<"v">>, <<"2">> >>>>, nested |-> FALSE]}

\* ns with a new node under par.
AddNode(ns, par, tag, attrs) ==
    appendChild(Append(ns, [NewNode(tag) EXCEPT !.attrs = attrs]), par, Len(ns) + 1)

AddElement(ns, par, sh) ==
    LET e == Len(ns) + 1
        ns1 == AddNode(AddNode(ns, par, sh.tag, sh.attrs), e, TextTag, <<>>)
    IN  IF sh.nested
        THEN AddNode(AddNode(ns1, e, <<"a">>, <<<< <<"h">>, <<"n">> >>>>), e + 2, TextTag, <<>>)
        ELSE ns1

RECURSIVE AddElements(_, _, _)
AddElements(ns, par, shs) ==
    IF shs = <<>> THEN ns ELSE AddElements(AddElement(ns, par, Head(shs)), par, Tail(shs))

\* The document: a body that holds a text and then the elements.
Document(shs) ==
    AddElements(AddNode(AddNode(<<NewNode(DocumentTag)>>, 1, <<"b", "o", "d", "y">>, <<>>),
                        2, TextTag, <<>>),
                2, shs)

Documents == {Document(shs) : shs \in SeqsUpTo(ElShapes, MaxEls) \ {<<>>}}

\* The documents the mappings of several rules are tried on.
SmallDocuments ==
    {Document(<<sh>>) : sh \in {s \in ElShapes : s.nested \/ s.tag = <<"l">>}}
    \cup {Document(<<s1, s2>>) :
            s1 \in {s \in ElShapes : s.tag = <<"l">>},
            s2 \in {s \in ElShapes : s.attrs = <<<< <<"h">>, <<"v">> >>>>}}

---------------------------------------------------------------------------
(* convertTags as the steps of one call *)

Init ==
    /\ txt = <<>>
    /\ written = <<>>
    /\ ParseIdle
    /\ conversions \in RuleLists
    /\ nodes \in Documents
    /\ \/ Len(conversions) = 1 /\ conversions[1][1] = <<"a">>
       \/ nodes \in SmallDocuments
    /\ document0 = nodes
    /\ o = 1
    /\ elements = <<>>
    /\ target = <<>>
    /\ matched = <<>>
    /\ idx = 0
    /\ cb = [el |-> 0, root |-> 0, parent |-> 0, converted |-> 0,
             elAttrs |-> <<>>, convertedAttrs |-> <<>>]
    /\ pc = "rule"

\* The head of the loop over the conversions: the definition is parsed, its
\* last descriptor popped, and the elements of the selector are listed.
\* elements.pop() throws a TypeError when parse returned null.
convertTagsRule ==
    /\ pc = "rule"
    /\ o <= Len(conversions)
    /\ LET r == parse(conversions[o][2], console) IN
          /\ parser' = r.s
          /\ console' = r.log
          /\ IF r.ret = nullChain
             THEN /\ pc' = "thrown"
                  /\ UNCHANGED <<elements, target, matched, idx>>
             ELSE /\ elements' = Front(r.ret)
                  /\ target' = Last(r.ret)
                  /\ matched' = querySelectorAll(nodes, conversions[o][1])
                  /\ idx' = 1
                  /\ pc' = "each"
    /\ UNCHANGED <<txt, written, results, ret, conversions, document0, nodes, o, cb>>

\* The callback, for the next element of the list: the new elements are built.
forEachBuild ==
    /\ pc = "each"
    /\ idx <= Len(matched)
    /\ Len(nodes) + Len(elements) + 1 <= MaxNodes
    /\ LET b == callbackBuild(nodes, matched[idx], elements, target) IN
          /\ nodes' = b.nodes
          /\ target' = b.target
          /\ cb' = b.cb
    /\ pc' = "substitute"
    /\ UNCHANGED parseVars
    /\ UNCHANGED <<conversions, document0, o, elements, matched, idx>>

\* The callback: the placeholders are replaced in convertedAttrs.
forEachSubstitute ==
    /\ pc = "substitute"
    /\ cb' = callbackSubstitute(cb)
    /\ pc' = "replace"
    /\ UNCHANGED parseVars
    /\ UNCHANGED <<conversions, document0, nodes, o, elements, target, matched, idx>>

\* The callback: the attributes are set and el is replaced.
forEachReplace ==
    /\ pc = "replace"
    /\ nodes' = callbackReplace(nodes, cb)
    /\ idx' = idx + 1
    /\ pc' = "each"
    /\ UNCHANGED parseVars
    /\ UNCHANGED <<conversions, document0, o, elements, target, matched, cb>>

\* forEachEnd with the selector asked again when the list is done, and the
\* rule run again while it matches.
forEachEndAskAgain ==
    /\ pc = "each"
    /\ idx > Len(matched)
    /\ IF querySelectorAll(nodes, conversions[o][1]) = <<>>
       THEN o' = o + 1 /\ pc' = "rule" /\ UNCHANGED <<matched, idx>>
       ELSE /\ matched' = querySelectorAll(nodes, conversions[o][1])
            /\ idx' = 1
            /\ UNCHANGED <<o, pc>>
    /\ UNCHANGED parseVars
    /\ UNCHANGED <<conversions, document0, nodes, elements, target, cb>>

\* The list is done: the loop goes to the next conversion.
forEachEnd ==
    /\ pc = "each"
    /\ idx > Len(matched)
    /\ o' = o + 1
    /\ pc' = "rule"
    /\ UNCHANGED parseVars
    /\ UNCHANGED <<conversions, document0, nodes, elements, target, matched, idx, cb>>

convertTagsReturn ==
    /\ pc = "rule"
    /\ o > Len(conversions)
    /\ pc' = "returned"
    /\ UNCHANGED parseVars
    /\ UNCHANGED <<conversions, document0, nodes, o, elements, target, matched, idx, cb>>

Next ==
    \/ convertTagsRule
    \/ forEachBuild
    \/ forEachSubstitute
    \/ forEachReplace
    \/ forEachEnd
    \/ convertTagsReturn

Spec == Init /\ [][Next]_vars

---------------------------------------------------------------------------
(* A call of parse or a call of convertTags, run to its end: the code is      *)
(* synchronous, so a call that can take a step takes it.                      *)

LiveInit == ParseInit \/ Init

LiveNext == ParseNext \/ Next

SpecLive == LiveInit /\ [][LiveNext]_vars /\ WF_vars(LiveNext)

---------------------------------------------------------------------------
(* The claims about convertTags *)

\* The element the callback is at, and the element built for it.
El == nodes[cb.el]
Built == nodes[cb.converted]

Range(s) == {s[i] : i \in 1..Len(s)}

\* The rules whose definition string parses.
ValidRules(convs) == SelectSeq(convs, LAMBDA c : parse(c[2], <<>>).ret # nullChain)

\* C1: when the call has ended, the document is the one that the mapping without
\* its invalid rules gives: an invalid rule is skipped and every later valid rule
\* is applied to the elements it matches.
C1_InvalidRuleSkipped ==
    pc \in {"returned", "thrown"}
        => nodes = convertTagsRun(document0, ValidRules(conversions))

\* s holds no placeholder of an attribute of el.
TokenFree(s, attrs) == \A j \in 1..Len(attrs) : ~Contains(s, Token(attrs[j][1]))
\* No value of el holds a placeholder of an attribute of el.
PlainValues(attrs) == \A j \in 1..Len(attrs) : TokenFree(attrs[j][2], attrs)

\* s with every placeholder of an attribute of el replaced by the value el has
\* for it, in one pass from left to right: the text put in is not looked at again.
RECURSIVE SubstituteAll(_, _)
SubstituteAll(s0, attrs) ==
    Let(s0, LAMBDA s :
        IF s = <<>> THEN <<>>
        ELSE IF \E j \in 1..Len(attrs) : IsAt(s, Token(attrs[j][1]), 1)
             THEN Let(CHOOSE j \in 1..Len(attrs) : IsAt(s, Token(attrs[j][1]), 1), LAMBDA j :
                      attrs[j][2]
                      \o SubstituteAll(SubSeq(s, Len(attrs[j][1]) + 4, Len(s)), attrs))
             ELSE <<Head(s)>> \o SubstituteAll(Tail(s), attrs))

\* C3: after the substitution every value of the built element is its value
\* before with every occurrence of every ${name}, name an attribute of el,
\* replaced by the value of el, and no such placeholder remains.  Stated for
\* elements whose own values hold no placeholder.
C3_EveryOccurrenceReplaced ==
    (pc = "replace" /\ PlainValues(cb.elAttrs))
        => \A i \in 1..Len(cb.convertedAttrs) :
              /\ cb.convertedAttrs[i][2] = SubstituteAll(Built.attrs[i][2], cb.elAttrs)
              /\ TokenFree(cb.convertedAttrs[i][2], cb.elAttrs)

\* C4: the id of the built element is the id of the target descriptor, and the
\* built element has no id when the descriptor has none, whatever id el has.
\* Stated for descriptors whose attribute list does not name id.
C4_IdOfDescriptor ==
    (pc = "substitute" /\ ~HasKey(target.attrs, ID))
        => IF target.id # null
           THEN HasKey(Built.attrs, ID) /\ Get(Built.attrs, ID) = target.id
           ELSE ~HasKey(Built.attrs, ID)

\* C5: before the substitution the built element has, for every key of the
\* attribute map of the descriptor, no attribute when the value is null and the
\* value of the descriptor otherwise, and for every other attribute of el but
\* class, the value el has.
C5_AttributesMerged ==
    pc = "substitute"
        => /\ \A i \in 1..Len(target.attrs) :
                 IF target.attrs[i][2] = null
                 THEN ~HasKey(Built.attrs, target.attrs[i][1])
                 ELSE /\ HasKey(Built.attrs, target.attrs[i][1])
                      /\ Get(Built.attrs, target.attrs[i][1]) = target.attrs[i][2]
           /\ \A j \in 1..Len(El.attrs) :
                 (El.attrs[j][1] # CLASS /\ ~HasKey(target.attrs, El.attrs[j][1]))
                     => /\ HasKey(Built.attrs, El.attrs[j][1])
                        /\ Get(Built.attrs, El.attrs[j][1]) = El.attrs[j][2]

\* The class list of the built element is the union of the classes of el and of
\* the descriptor, and no class is in it twice.
ClassesAreUnion ==
    /\ \A i, j \in 1..Len(ClassTokens(Built)) :
          i # j => ClassTokens(Built)[i] # ClassTokens(Built)[j]
    /\ Range(ClassTokens(Built)) = Range(target.classes) \cup Range(ClassTokens(El))

\* C6, as stated: for every el and every target descriptor the class list of the
\* built element is exactly the union of the classes of el and of the descriptor,
\* each once.
C6_ClassUnion == pc = "substitute" => ClassesAreUnion

\* C6, amended: the class list of the built element is exactly the union of the
\* classes of el and of the descriptor, each once, when the attribute map of the
\* descriptor has no key class.
C6_ClassUnionNoClassKey ==
    (pc = "substitute" /\ ~HasKey(target.attrs, CLASS)) => ClassesAreUnion

\* A descriptor that lists a class twice and shares it with el.
C6_Witness ==
    /\ pc = "substitute"
    /\ ~HasKey(target.attrs, CLASS)
    /\ target.classes = <<<<"c">>, <<"c">>>>
    /\ ClassTokens(El) = <<<<"c">>, <<"k">>>>
    /\ ClassTokens(Built) = <<<<"c">>, <<"k">>>>

\* n is the child of some node.
InTree(ns, n) == \E m \in 1..Len(ns) : \E i \in 1..Len(ns[m].children) : ns[m].children[i] = n

\* The i-th element made for the chain in the callback that made cb.converted.
Ancestor(i) == cb.converted - Len(elements) + i - 1

\* The step that builds: the children of the built element are the children el
\* had, in their order.
C9_BuildStep ==
    (pc = "each" /\ pc' = "substitute")
        => /\ cb'.el = matched[idx]
           /\ nodes'[cb'.converted].tag = target.tag
           /\ nodes'[cb'.converted].children = nodes[matched[idx]].children
           /\ \A i \in 1..Len(nodes[matched[idx]].children) :
                 nodes'[nodes[matched[idx]].children[i]].parent = cb'.converted
           /\ nodes'[nodes[matched[idx]].parent].children
                 = nodes[nodes[matched[idx]].parent].children

\* The step that replaces: el leaves the tree, the outermost new element stands
\* where el stood, and the new elements are nested in the order of the chain.
C9_ReplaceStep ==
    (pc = "replace" /\ pc' = "each")
        => /\ nodes'[cb.el].parent = 0
           /\ ~InTree(nodes', cb.el)
           /\ InTree(nodes, cb.el)
           /\ Len(nodes'[El.parent].children) = Len(nodes[El.parent].children)
           /\ \A i \in 1..Len(nodes[El.parent].children) :
                 nodes'[El.parent].children[i]
                     = IF nodes[El.parent].children[i] = cb.el
                       THEN (IF Len(elements) > 0 THEN Ancestor(1) ELSE cb.converted)
                       ELSE nodes[El.parent].children[i]
           /\ nodes'[IF Len(elements) > 0 THEN Ancestor(1) ELSE cb.converted].parent
                 = El.parent
           /\ \A i \in 1..Len(elements) :
                 /\ nodes'[Ancestor(i)].tag = elements[i].tag
                 /\ nodes'[Ancestor(i)].children
                       = <<IF i < Len(elements) THEN Ancestor(i + 1) ELSE cb.converted>>
                 /\ nodes'[IF i < Len(elements) THEN Ancestor(i + 1) ELSE cb.converted].parent
                       = Ancestor(i)
           /\ nodes'[cb.converted].children = nodes[cb.converted].children
           /\ \A n \in 1..Len(nodes) :
                 (n # El.parent /\ n # cb.el /\ n < Ancestor(1))
                     => nodes'[n] = nodes[n]

\* C9: when the callback has processed el, el is out of the tree, the outermost
\* new element stands at the place el had among the children of its parent, the
\* elements of the chain are nested in its order with the built element the only
\* child of the innermost, and the children of the built element are the
\* children el had, in their order.
C9_ReplacedInPlace == [][C9_BuildStep /\ C9_ReplaceStep]_vars

\* An element with children has been replaced by a chain of two elements over
\* the built one, and its parent holds other children.
C9_Witness ==
    /\ pc = "each"
    /\ idx > 1
    /\ Len(elements) = 2
    /\ nodes[cb.el].parent = 0
    /\ ~InTree(nodes, cb.el)
    /\ nodes[cb.converted].children # <<>>
    /\ nodes[cb.converted].parent = cb.parent
    /\ cb.parent # cb.root
    /\ nodes[cb.root].parent = 2
    /\ Len(nodes[2].children) > 2

\* Some value of the built element holds a placeholder whose value in el holds
\* a placeholder of el.
NestedPlaceholder ==
    \E i \in 1..Len(Built.attrs) : \E j, k \in 1..Len(cb.elAttrs) :
        /\ Contains(Built.attrs[i][2], Token(cb.elAttrs[j][1]))
        /\ Contains(cb.elAttrs[j][2], Token(cb.elAttrs[k][1]))

\* No placeholder of el is twice in s.
OncePerValue(s, attrs) ==
    \A j \in 1..Len(attrs) :
        Cardinality({i \in 1..Len(s) : IsAt(s, Token(attrs[j][1]), i)}) <= 1

\* C10: the substitution is one pass: when the value put in for a placeholder
\* holds a placeholder of el, that text stays as it is in the value of the built
\* element, whatever the order of the attributes of el.
C10_SinglePass ==
    (pc = "replace" /\ NestedPlaceholder)
        => \A i \in 1..Len(cb.convertedAttrs) :
              OncePerValue(Built.attrs[i][2], cb.elAttrs)
                  => cb.convertedAttrs[i][2] = SubstituteAll(Built.attrs[i][2], cb.elAttrs)

\* The chain the rule at hand was parsed to.
ParsedChain == parse(conversions[o][2], <<>>).ret

\* The elements made for the chain in the callback have the tag and the
\* attributes the descriptors of ch give, the last merged with el alone.
BuiltFrom(ch) ==
    /\ Built.tag = convertElement(El, Last(ch)).tag
    /\ Built.attrs = convertElement(El, Last(ch)).attrs
    /\ \A i \in 1..(Len(ch) - 1) :
          /\ nodes[Ancestor(i)].tag = createElement(ch[i]).tag
          /\ nodes[Ancestor(i)].attrs = createElement(ch[i]).attrs

\* C11: within a rule, whatever matches were processed before, the descriptors
\* are as they were parsed, and the elements built for a match are the ones the
\* parsed chain and that match alone give: no class or attribute of another
\* match is on them.
C11_BuiltFromParsedChain ==
    pc \in {"each", "substitute", "replace"}
        => /\ elements = Front(ParsedChain)
           /\ target = Last(ParsedChain)
           /\ pc = "substitute" => BuiltFrom(ParsedChain)

\* The second match of a rule is built, bare, after a first match that had an
\* id, classes and an attribute, under a chain with an ancestor.
C11_Witness ==
    /\ pc = "substitute"
    /\ idx = 2
    /\ HasKey(nodes[matched[1]].attrs, CLASS)
    /\ HasKey(nodes[matched[1]].attrs, ID)
    /\ El.attrs = <<>>
    /\ Len(elements) = 1
    /\ target.classes # <<>>
    /\ ClassTokens(Built) = target.classes

\* The call has ended: parse has returned, or convertTags has returned or thrown.
Done == ret.st = "returned" \/ pc \in {"returned", "thrown"}

\* C12: every call of parse and every call of convertTags ends.
C12_Terminates == <>Done

\* convertTags has returned and a rule has left in the document new elements
\* that its own selector matches.
C12_Witness ==
    /\ pc = "returned"
    /\ \E i \in 1..Len(conversions) :
          \E n \in (Len(document0) + 1)..Len(nodes) :
              /\ nodes[n].tag = conversions[i][1]
              /\ \E k \in 1..Len(parse(conversions[i][2], <<>>).ret) :
                    parse(conversions[i][2], <<>>).ret[k].tag = conversions[i][1]
              /\ InTree(nodes, n)

\* The steps of the call give the document the call as a whole gives.
StepsAreTheCall ==
    pc \in {"returned", "thrown"} => nodes = convertTagsRun(document0, conversions)

====
